---------------------------- MODULE Spec2Model ----------------------------
(***************************************************************************)
(* A model of flash.py (piksi_tools): the STM / M25 flash programming      *)
(* engine.  Pure functions (sector maps, sectors_used, ihx_ranges) are     *)
(* operators; the Flash object, its caller thread(s), the serial link and  *)
(* the device behind it form the state machine.                            *)
(***************************************************************************)
EXTENDS Integers, Sequences, FiniteSets, TLC

VARIABLES
  flash_type,            \* Flash.flash_type
  constructed,           \* "no" | "yes" | "failed": progress of Flash.__init__
  callbacks,             \* link's registered callbacks: set of <<msg type, handler>>
  waiting_for_callback,  \* Flash._waiting_for_callback
  read_callback_data,    \* Flash._read_callback_data
  pc,                    \* per caller thread: position in the code
  frame,                 \* per caller thread: arguments and locals of the running call
  result,                \* per caller thread: outcome of the last finished call
  ncalls,                \* per caller thread: number of top-level calls started
  sent,                  \* every link.send_message so far, in order
  answered,              \* number of requests the device has answered
  mem,                   \* the device's flash memory (address -> byte), sparse
  spurious,              \* unsolicited callbacks delivered so far
  cbs,                   \* per caller thread: callback kinds run since its last send
  probe                  \* a pure-function application: [fn, ft, args, out]

vars == <<flash_type, constructed, callbacks, waiting_for_callback,
          read_callback_data, pc, frame, result, ncalls, sent, answered,
          mem, spurious, cbs, probe>>

flashVars == <<flash_type, constructed, callbacks, waiting_for_callback,
               read_callback_data, pc, frame, result, ncalls, sent, answered,
               mem, spurious, cbs>>

-----------------------------------------------------------------------------
(* Message types and the chunk size                                         *)

MSG_STM_FLASH_WRITE == 224
MSG_STM_FLASH_READ == 225
MSG_STM_FLASH_ERASE == 226
MSG_STM_FLASH_DONE == 224
MSG_M25_FLASH_WRITE == 240
MSG_M25_FLASH_READ == 241
MSG_M25_FLASH_ERASE == 242
MSG_M25_FLASH_DONE == 240

ADDRS_PER_OP == 128

-----------------------------------------------------------------------------
(* Python values: None, and the outcome of a call that may raise            *)

None == -1

Ret(v) == [raised |-> "", val |-> v]
Raise(e) == [raised |-> e, val |-> None]

\* range(lo, hi) as a set
PyRange(lo, hi) == {x \in lo..(hi - 1) : TRUE}

\* range(start, end, step) as a list
RECURSIVE PyRangeStep(_, _, _)
PyRangeStep(start, end, step) ==
  IF start < end THEN <<start>> \o PyRangeStep(start + step, end, step)
  ELSE <<>>

\* sorted(list(S))
RECURSIVE Sorted(_)
Sorted(S) ==
  IF S = {} THEN <<>>
  ELSE LET m == CHOOSE x \in S : \A y \in S : x <= y
       IN <<m>> \o Sorted(S \ {m})

-----------------------------------------------------------------------------
(* Sector maps                                                              *)

\* the map with the boundary between sectors 7 and 8 one address too high
stm_addr_sector_map_offByOne(addr) ==
  IF addr >= \H08000000 /\ addr < \H08004000 THEN 0
  ELSE IF addr >= \H08004000 /\ addr < \H08008000 THEN 1
  ELSE IF addr >= \H08008000 /\ addr < \H0800C000 THEN 2
  ELSE IF addr >= \H0800C000 /\ addr < \H08010000 THEN 3
  ELSE IF addr >= \H08010000 /\ addr < \H08020000 THEN 4
  ELSE IF addr >= \H08020000 /\ addr < \H08040000 THEN 5
  ELSE IF addr >= \H08040000 /\ addr < \H08060000 THEN 6
  ELSE IF addr >= \H08060000 /\ addr <= \H08080000 THEN 7
  ELSE IF addr > \H08080000 /\ addr < \H080A0000 THEN 8
  ELSE IF addr >= \H080A0000 /\ addr < \H080C0000 THEN 9
  ELSE IF addr >= \H080C0000 /\ addr < \H080E0000 THEN 10
  ELSE IF addr >= \H080E0000 /\ addr < \H08100000 THEN 11
  ELSE None

stm_addr_sector_map(addr) ==
  IF addr >= \H08000000 /\ addr < \H08004000 THEN 0
  ELSE IF addr >= \H08004000 /\ addr < \H08008000 THEN 1
  ELSE IF addr >= \H08008000 /\ addr < \H0800C000 THEN 2
  ELSE IF addr >= \H0800C000 /\ addr < \H08010000 THEN 3
  ELSE IF addr >= \H08010000 /\ addr < \H08020000 THEN 4
  ELSE IF addr >= \H08020000 /\ addr < \H08040000 THEN 5
  ELSE IF addr >= \H08040000 /\ addr < \H08060000 THEN 6
  ELSE IF addr >= \H08060000 /\ addr < \H08080000 THEN 7
  ELSE IF addr >= \H08080000 /\ addr < \H080A0000 THEN 8
  ELSE IF addr >= \H080A0000 /\ addr < \H080C0000 THEN 9
  ELSE IF addr >= \H080C0000 /\ addr < \H080E0000 THEN 10
  ELSE IF addr >= \H080E0000 /\ addr < \H08100000 THEN 11
  ELSE None

m25_addr_sector_map(addr) ==
  IF addr < 0 \/ addr > \H0FFFFF THEN Raise("ValueError")
  ELSE Ret(addr \div 65536)

\* self.addr_sector_map, bound to one of the two maps by __init__
addr_sector_map(ft, addr) ==
  IF ft = "STM" THEN Ret(stm_addr_sector_map(addr))
  ELSE m25_addr_sector_map(addr)

-----------------------------------------------------------------------------
(* Flash.sectors_used                                                       *)

\* the sectors of one range without the +1: the end's sector is left out
range_sectors_noPlusOne(ft, s, e) ==
  LET a == addr_sector_map(ft, s)
      b == addr_sector_map(ft, e)
  IN IF a.raised # "" THEN a
     ELSE IF b.raised # "" THEN b
     ELSE IF b.val = None \/ a.val = None THEN Raise("TypeError")
     ELSE Ret(PyRange(a.val, b.val))

\* set(range(addr_sector_map(s), addr_sector_map(e)+1)) for one (s, e);
\* None + 1, and range(None, n), raise TypeError
range_sectors(ft, s, e) ==
  LET a == addr_sector_map(ft, s)
      b == addr_sector_map(ft, e)
  IN IF a.raised # "" THEN a
     ELSE IF b.raised # "" THEN b
     ELSE IF b.val = None \/ a.val = None THEN Raise("TypeError")
     ELSE Ret(PyRange(a.val, b.val + 1))

\* the for loop of sectors_used from the i-th range on, sectors being the set so far
RECURSIVE sectors_loop(_, _, _, _)
sectors_loop(ft, addrs, i, sectors) ==
  IF i > Len(addrs) THEN Ret(sectors)
  ELSE LET r == range_sectors(ft, addrs[i][1], addrs[i][2])
       IN IF r.raised # "" THEN r
          ELSE sectors_loop(ft, addrs, i + 1, sectors \cup r.val)

\* sectors_used collecting a list instead of a set: the sectors of every
\* range one after the other, a sector shared by two ranges twice
RECURSIVE sectors_concat(_, _, _)
sectors_concat(ft, addrs, i) ==
  IF i > Len(addrs) THEN Ret(<<>>)
  ELSE LET r == range_sectors(ft, addrs[i][1], addrs[i][2])
           rest == sectors_concat(ft, addrs, i + 1)
       IN IF r.raised # "" THEN r
          ELSE IF rest.raised # "" THEN rest
          ELSE Ret(Sorted(r.val) \o rest.val)

sectors_used_noDedup(ft, addrs) == sectors_concat(ft, addrs, 1)

sectors_used(ft, addrs) ==
  LET r == sectors_loop(ft, addrs, 1, {})
  IN IF r.raised # "" THEN r ELSE Ret(Sorted(r.val))

-----------------------------------------------------------------------------
(* ihx_ranges                                                               *)

\* enumerate(xs): pairs (i, x), i from 0.  Enumerate, RunLength and GroupBy are
\* functions: their arguments, lists of up to 256 addresses, are evaluated once
Enumerate[xs \in Seq(Nat)] == [i \in 1..Len(xs) |-> <<i - 1, xs[i]>>]

\* the groupby key: lambda (i, x) : i - x
GroupKey(p) == p[1] - p[2]

\* how many elements from the front of ps the group with key k takes: up to
\* the first element whose key differs
RunLength[ps \in Seq(Nat \X Nat), k \in Int] ==
  LET differs == {i \in 1..Len(ps) : GroupKey(ps[i]) # k}
  IN IF differs = {} THEN Len(ps)
     ELSE (CHOOSE i \in differs : \A j \in differs : i <= j) - 1

\* itertools.groupby: maximal runs of consecutive elements with equal key
GroupBy[ps \in Seq(Nat \X Nat)] ==
  IF ps = <<>> THEN <<>>
  ELSE LET n == RunLength[ps, GroupKey(Head(ps))]
       IN <<SubSeq(ps, 1, n)>> \o GroupBy[SubSeq(ps, n + 1, Len(ps))]

first_last(x) == <<x[1][2], x[Len(x)][2]>>

ihx_ranges(addresses) ==
  LET groups == GroupBy[Enumerate[addresses]]
  IN [j \in 1..Len(groups) |-> first_last(groups[j])]


-----------------------------------------------------------------------------
(* struct.pack / struct.unpack                                              *)

\* struct.pack("<I", v): four bytes, least significant first
LE32(v) == <<v % 256, (v \div 256) % 256, (v \div 65536) % 256,
             (v \div 16777216) % 256>>

\* struct.unpack("<I", b)[0]
UnLE32(b) == b[1] + 256 * b[2] + 65536 * b[3] + 16777216 * b[4]

\* struct.pack("B", v)
pack_B(v) ==
  IF v < 0 \/ v > 255 THEN Raise("struct.error") ELSE Ret(<<v>>)

\* struct.pack("<IB", address, n)
pack_IB(address, n) ==
  IF address < 0 \/ n < 0 \/ n > 255 THEN Raise("struct.error")
  ELSE Ret(LE32(address) \o <<n>>)

\* the payload sliced one byte early: the length byte comes along
unpack_read_keepHeader(data) ==
  LET length == data[5]
  IN IF Len(data) - 5 # length THEN Raise("struct.error")
     ELSE Ret(SubSeq(data, 5, Len(data)))

\* the body of _read_callback up to the assignment: the list it stores
unpack_read(data) ==
  LET addr == UnLE32(SubSeq(data, 1, 4))
      length == data[5]
      payload == SubSeq(data, 6, Len(data))
  IN IF Len(payload) # length THEN Raise("struct.error")
     ELSE Ret(payload)

-----------------------------------------------------------------------------
(* The source image (IntelHex): populated addresses and their bytes         *)

\* an image is a list of runs <<first address, count>>, ascending
RECURSIVE addresses(_)
addresses(ihx) ==
  IF ihx = <<>> THEN <<>>
  ELSE [i \in 1..Head(ihx)[2] |-> Head(ihx)[1] + i - 1] \o addresses(Tail(ihx))

\* the set of populated addresses
Populated(ihx) ==
  UNION {{a \in ihx[j][1]..(ihx[j][1] + ihx[j][2] - 1) : TRUE} : j \in 1..Len(ihx)}

ImageByte(a) == a % 251

\* ihx.tobinstr(start=addr, size=n): n bytes, 0xFF where the image has none
tobinstr(ihx, start, size) ==
  LET pop == Populated(ihx)
  IN [i \in 1..size |->
        IF (start + i - 1) \in pop THEN ImageByte(start + i - 1) ELSE 255]

-----------------------------------------------------------------------------
(* Flash: construction and policy                                           *)

Threads == {"main", "other"}

FlashTypes == {"STM", "M25", "LPC"}

flash_msg_read == IF flash_type = "STM" THEN MSG_STM_FLASH_READ ELSE MSG_M25_FLASH_READ
flash_msg_erase == IF flash_type = "STM" THEN MSG_STM_FLASH_ERASE ELSE MSG_M25_FLASH_ERASE
flash_msg_write == IF flash_type = "STM" THEN MSG_STM_FLASH_WRITE ELSE MSG_M25_FLASH_WRITE
flash_msg_done == IF flash_type = "STM" THEN MSG_STM_FLASH_DONE ELSE MSG_M25_FLASH_DONE

\* the STM test with 3 for 4
sector_restricted_stmBelow3(ft, sector) ==
  IF ft = "STM" THEN sector < 3
  ELSE IF ft = "M25" THEN sector = 15
  ELSE FALSE

\* the M25 test with > for ==
sector_restricted_m25Above15(ft, sector) ==
  IF ft = "STM" THEN sector < 4
  ELSE IF ft = "M25" THEN sector > 15
  ELSE FALSE

\* Flash.sector_restricted (its None for an unknown family is false in a test)

sector_restricted(ft, sector) ==
  IF ft = "STM" THEN sector < 4
  ELSE IF ft = "M25" THEN sector = 15
  ELSE FALSE

NoCall == [op |-> "", address |-> 0, data |-> <<>>, status |-> ""]

NoFrame ==
  [op |-> "", caller |-> "", call |-> 0, busy |-> FALSE, prev |-> NoCall,
   sector |-> 0, check_sector |-> TRUE, address |-> 0, data |-> <<>>,
   length |-> 0, msg_buf |-> <<>>, req |-> 0,
   ihx |-> <<>>, ihx_addrs |-> <<>>, sectors |-> <<>>, si |-> 0, ri |-> 0,
   strides |-> <<>>, ai |-> 0, addr |-> 0, binary |-> <<>>,
   flash_readback |-> <<>>]

NoResult == [status |-> "", val |-> <<>>]

NoProbe == [fn |-> "none", ft |-> "STM", args |-> <<>>, out |-> <<>>, done |-> FALSE]

InitFlash ==
  /\ constructed = "no"
  /\ callbacks = {}
  /\ waiting_for_callback = FALSE
  /\ read_callback_data = <<>>
  /\ pc = [t \in Threads |-> "idle"]
  /\ frame = [t \in Threads |-> NoFrame]
  /\ result = [t \in Threads |-> NoResult]
  /\ ncalls = [t \in Threads |-> 0]
  /\ sent = <<>>
  /\ answered = 0
  /\ mem = <<>>
  /\ spurious = 0
  /\ cbs = [t \in Threads |-> {}]

Init ==
  /\ flash_type \in FlashTypes
  /\ InitFlash
  /\ probe = NoProbe

\* Flash.__init__ with the registrations moved ahead of the family test
Flash_init_registersFirst ==
  /\ constructed = "no"
  /\ callbacks' = {<<flash_msg_done, "_done_callback">>,
                   <<flash_msg_read, "_read_callback">>}
  /\ constructed' = IF flash_type \in {"STM", "M25"} THEN "yes" ELSE "failed"
  /\ UNCHANGED <<flash_type, waiting_for_callback, read_callback_data, pc,
                 frame, result, ncalls, sent, answered, mem, spurious, cbs,
                 probe>>

\* Flash.__init__
Flash_init ==
  /\ constructed = "no"
  /\ IF flash_type = "STM"
     THEN /\ callbacks' = {<<MSG_STM_FLASH_DONE, "_done_callback">>,
                           <<MSG_STM_FLASH_READ, "_read_callback">>}
          /\ constructed' = "yes"
     ELSE IF flash_type = "M25"
     THEN /\ callbacks' = {<<MSG_M25_FLASH_DONE, "_done_callback">>,
                           <<MSG_M25_FLASH_READ, "_read_callback">>}
          /\ constructed' = "yes"
     ELSE /\ callbacks' = callbacks
          /\ constructed' = "failed"
  /\ UNCHANGED <<flash_type, waiting_for_callback, read_callback_data, pc,
                 frame, result, ncalls, sent, answered, mem, spurious, cbs,
                 probe>>


-----------------------------------------------------------------------------
(* Caller threads: how a call starts, ends and raises                       *)

\* top-level calls a thread makes: when the device may misbehave, and when it
\* answers faithfully
MaxCalls == 1

MaxDeviceCalls == 2

LastCall(t) ==
  [op |-> frame[t].op, address |-> frame[t].address, data |-> frame[t].data,
   status |-> result[t].status]

CanCall(t, max) ==
  /\ constructed = "yes"
  /\ pc[t] = "idle"
  /\ ncalls[t] < max

\* a fresh frame for a top-level call of thread t
NewFrame(t, op) ==
  [NoFrame EXCEPT !.op = op, !.call = ncalls[t] + 1,
                  !.busy = waiting_for_callback, !.prev = LastCall(t)]

\* the top-level call of t ends: it returns val, or an exception leaves it
Finish(t, status, val) ==
  /\ pc' = [pc EXCEPT ![t] = "idle"]
  /\ result' = [result EXCEPT ![t] = [status |-> status, val |-> val]]

\* link.send_message(msg_type, buf) by thread t
send_message(t, msg_type, buf) ==
  /\ sent' = Append(sent, [type |-> msg_type, buf |-> buf, by |-> t,
                            call |-> frame[t].call, op |-> frame[t].op])
  /\ cbs' = [cbs EXCEPT ![t] = {}]

-----------------------------------------------------------------------------
(* Flash.erase_sector                                                       *)

EraseSectors == IF flash_type = "STM" THEN {2, 3, 4} ELSE {14, 15}

call_erase_sector(t, max) ==
  /\ CanCall(t, max)
  /\ \E sector \in EraseSectors, check_sector \in BOOLEAN :
       frame' = [frame EXCEPT ![t] =
                   [NewFrame(t, "erase_sector") EXCEPT
                      !.sector = sector, !.check_sector = check_sector]]
  /\ pc' = [pc EXCEPT ![t] = "erase_check"]
  /\ ncalls' = [ncalls EXCEPT ![t] = @ + 1]
  /\ UNCHANGED <<flash_type, constructed, callbacks, waiting_for_callback,
                 read_callback_data, result, sent, answered, mem, spurious,
                 cbs, probe>>

\* lines 109-110
erase_check(t) ==
  /\ pc[t] = "erase_check"
  /\ IF frame[t].check_sector /\ sector_restricted(flash_type, frame[t].sector)
     THEN Finish(t, "Tried to erase restricted sector", <<>>)
     ELSE /\ pc' = [pc EXCEPT ![t] = "erase_set"]
          /\ result' = result
  /\ UNCHANGED <<flash_type, constructed, callbacks, waiting_for_callback,
                 read_callback_data, frame, ncalls, sent, answered, mem,
                 spurious, cbs, probe>>

\* lines 111-112
erase_set(t) ==
  /\ pc[t] = "erase_set"
  /\ LET m == pack_B(frame[t].sector)
     IN IF m.raised # ""
        THEN /\ Finish(t, m.raised, <<>>)
             /\ UNCHANGED <<frame, waiting_for_callback>>
        ELSE /\ frame' = [frame EXCEPT ![t].msg_buf = m.val]
             /\ waiting_for_callback' = TRUE
             /\ pc' = [pc EXCEPT ![t] = "erase_send"]
             /\ result' = result
  /\ UNCHANGED <<flash_type, constructed, callbacks, read_callback_data,
                 ncalls, sent, answered, mem, spurious, cbs, probe>>

\* line 113
erase_send(t) ==
  /\ pc[t] = "erase_send"
  /\ send_message(t, flash_msg_erase, frame[t].msg_buf)
  /\ frame' = [frame EXCEPT ![t].req = Len(sent) + 1]
  /\ pc' = [pc EXCEPT ![t] = "erase_wait"]
  /\ UNCHANGED <<flash_type, constructed, callbacks, waiting_for_callback,
                 read_callback_data, result, ncalls, answered, mem, spurious,
                 probe>>

\* erase_sector returning without waiting for the flag
erase_wait_noWait(t) ==
  /\ pc[t] = "erase_wait"
  /\ IF frame[t].caller = "write_ihx"
     THEN /\ frame' = [frame EXCEPT ![t].si = @ + 1]
          /\ pc' = [pc EXCEPT ![t] = "ihx_erase_loop"]
          /\ result' = result
     ELSE /\ Finish(t, "ok", <<>>)
          /\ frame' = frame
  /\ UNCHANGED <<flash_type, constructed, callbacks, waiting_for_callback,
                 read_callback_data, ncalls, sent, answered, mem, spurious,
                 cbs, probe>>

\* lines 114-115: the loop is left once the flag is seen False
erase_wait(t) ==
  /\ pc[t] = "erase_wait"
  /\ waiting_for_callback = FALSE
  /\ IF frame[t].caller = "write_ihx"
     THEN /\ frame' = [frame EXCEPT ![t].si = @ + 1]
          /\ pc' = [pc EXCEPT ![t] = "ihx_erase_loop"]
          /\ result' = result
     ELSE /\ Finish(t, "ok", <<>>)
          /\ frame' = frame
  /\ UNCHANGED <<flash_type, constructed, callbacks, waiting_for_callback,
                 read_callback_data, ncalls, sent, answered, mem, spurious,
                 cbs, probe>>

-----------------------------------------------------------------------------
(* Flash.write                                                              *)

WriteAddresses == IF flash_type = "STM" THEN {\H08010000} ELSE {\H0E0000, \H0E0001}

\* the byte strings a direct write is given: lengths 1, 3 and 255
WriteData == {<<90>>, <<1, 2, 3>>, [i \in 1..255 |-> (7 * i) % 256]}

call_write(t, max) ==
  /\ CanCall(t, max)
  /\ \E address \in WriteAddresses, data \in WriteData :
       frame' = [frame EXCEPT ![t] =
                   [NewFrame(t, "write") EXCEPT
                      !.address = address, !.data = data]]
  /\ pc' = [pc EXCEPT ![t] = "write_set"]
  /\ ncalls' = [ncalls EXCEPT ![t] = @ + 1]
  /\ UNCHANGED <<flash_type, constructed, callbacks, waiting_for_callback,
                 read_callback_data, result, sent, answered, mem, spurious,
                 cbs, probe>>

\* lines 118-119
write_set(t) ==
  /\ pc[t] = "write_set"
  /\ LET m == pack_IB(frame[t].address, Len(frame[t].data))
     IN IF m.raised # ""
        THEN /\ Finish(t, m.raised, <<>>)
             /\ UNCHANGED <<frame, waiting_for_callback>>
        ELSE /\ frame' = [frame EXCEPT ![t].msg_buf = m.val]
             /\ waiting_for_callback' = TRUE
             /\ pc' = [pc EXCEPT ![t] = "write_send"]
             /\ result' = result
  /\ UNCHANGED <<flash_type, constructed, callbacks, read_callback_data,
                 ncalls, sent, answered, mem, spurious, cbs, probe>>

\* line 120
write_send(t) ==
  /\ pc[t] = "write_send"
  /\ send_message(t, flash_msg_write, frame[t].msg_buf \o frame[t].data)
  /\ frame' = [frame EXCEPT ![t].req = Len(sent) + 1]
  /\ pc' = [pc EXCEPT ![t] = "write_wait"]
  /\ UNCHANGED <<flash_type, constructed, callbacks, waiting_for_callback,
                 read_callback_data, result, ncalls, answered, mem, spurious,
                 probe>>

\* write returning without waiting for the flag
write_wait_noWait(t) ==
  /\ pc[t] = "write_wait"
  /\ IF frame[t].caller = "write_ihx"
     THEN /\ frame' = [frame EXCEPT ![t].address = frame[t].addr,
                                    ![t].length = ADDRS_PER_OP]
          /\ pc' = [pc EXCEPT ![t] = "read_set"]
          /\ result' = result
     ELSE /\ Finish(t, "ok", <<>>)
          /\ frame' = frame
  /\ UNCHANGED <<flash_type, constructed, callbacks, waiting_for_callback,
                 read_callback_data, ncalls, sent, answered, mem, spurious,
                 cbs, probe>>

\* lines 121-122; inside write_ihx the read of line 159 is called next
write_wait(t) ==
  /\ pc[t] = "write_wait"
  /\ waiting_for_callback = FALSE
  /\ IF frame[t].caller = "write_ihx"
     THEN /\ frame' = [frame EXCEPT ![t].address = frame[t].addr,
                                    ![t].length = ADDRS_PER_OP]
          /\ pc' = [pc EXCEPT ![t] = "read_set"]
          /\ result' = result
     ELSE /\ Finish(t, "ok", <<>>)
          /\ frame' = frame
  /\ UNCHANGED <<flash_type, constructed, callbacks, waiting_for_callback,
                 read_callback_data, ncalls, sent, answered, mem, spurious,
                 cbs, probe>>

-----------------------------------------------------------------------------
(* Flash.read                                                               *)

ReadLengths == {1, 3, 255}

call_read(t, max) ==
  /\ CanCall(t, max)
  /\ \E address \in WriteAddresses, length \in ReadLengths :
       frame' = [frame EXCEPT ![t] =
                   [NewFrame(t, "read") EXCEPT
                      !.address = address, !.length = length]]
  /\ pc' = [pc EXCEPT ![t] = "read_set"]
  /\ ncalls' = [ncalls EXCEPT ![t] = @ + 1]
  /\ UNCHANGED <<flash_type, constructed, callbacks, waiting_for_callback,
                 read_callback_data, result, sent, answered, mem, spurious,
                 cbs, probe>>

\* lines 125-126
read_set(t) ==
  /\ pc[t] = "read_set"
  /\ LET m == pack_IB(frame[t].address, frame[t].length)
     IN IF m.raised # ""
        THEN /\ Finish(t, m.raised, <<>>)
             /\ UNCHANGED <<frame, waiting_for_callback>>
        ELSE /\ frame' = [frame EXCEPT ![t].msg_buf = m.val]
             /\ waiting_for_callback' = TRUE
             /\ pc' = [pc EXCEPT ![t] = "read_send"]
             /\ result' = result
  /\ UNCHANGED <<flash_type, constructed, callbacks, read_callback_data,
                 ncalls, sent, answered, mem, spurious, cbs, probe>>

\* line 127
read_send(t) ==
  /\ pc[t] = "read_send"
  /\ send_message(t, flash_msg_read, frame[t].msg_buf)
  /\ frame' = [frame EXCEPT ![t].req = Len(sent) + 1]
  /\ pc' = [pc EXCEPT ![t] = "read_wait"]
  /\ UNCHANGED <<flash_type, constructed, callbacks, waiting_for_callback,
                 read_callback_data, result, ncalls, answered, mem, spurious,
                 probe>>

\* lines 128-129
read_wait(t) ==
  /\ pc[t] = "read_wait"
  /\ waiting_for_callback = FALSE
  /\ pc' = [pc EXCEPT ![t] = "read_ret"]
  /\ UNCHANGED <<flash_type, constructed, callbacks, waiting_for_callback,
                 read_callback_data, frame, result, ncalls, sent, answered,
                 mem, spurious, cbs, probe>>

\* line 130; inside write_ihx the value is bound to flash_readback (line 159)
read_ret(t) ==
  /\ pc[t] = "read_ret"
  /\ IF frame[t].caller = "write_ihx"
     THEN /\ frame' = [frame EXCEPT ![t].flash_readback = read_callback_data]
          /\ pc' = [pc EXCEPT ![t] = "ihx_compare"]
          /\ result' = result
     ELSE /\ Finish(t, "ok", read_callback_data)
          /\ frame' = frame
  /\ UNCHANGED <<flash_type, constructed, callbacks, waiting_for_callback,
                 read_callback_data, ncalls, sent, answered, mem, spurious,
                 cbs, probe>>


-----------------------------------------------------------------------------
(* Flash.write_ihx                                                          *)

\* the images programmed: runs <<first address, count>>
Images ==
  IF flash_type = "STM"
  THEN {<< <<\H08010000, 2>> >>,
        << <<\H0800FFFF, 2>> >>,
        << <<\H08010000, 2>>, <<\H08010100, 1>> >>,
        << <<\H08020000, 129>> >>,
        << <<\H0801FF80, 256>> >>,
        << <<\H0801FFFE, 2>> >>,
        << <<\H080FFFFF, 2>> >>}
  ELSE {<< <<\H0E0000, 2>> >>,
        << <<\H0EFFFF, 2>> >>,
        << <<\H0EFFFE, 2>> >>,
        << <<\H0F0000, 2>> >>,
        << <<16, 2>>, <<300, 1>> >>,
        << <<0, 129>> >>,
        << <<\H01FF80, 256>> >>,
        << <<\H0FFFFF, 2>> >>}

call_write_ihx(t, max) ==
  /\ CanCall(t, max)
  /\ \E ihx \in Images :
       frame' = [frame EXCEPT ![t] = [NewFrame(t, "write_ihx") EXCEPT !.ihx = ihx]]
  /\ pc' = [pc EXCEPT ![t] = "ihx_ranges"]
  /\ ncalls' = [ncalls EXCEPT ![t] = @ + 1]
  /\ UNCHANGED <<flash_type, constructed, callbacks, waiting_for_callback,
                 read_callback_data, result, sent, answered, mem, spurious,
                 cbs, probe>>

\* line 144
write_ihx_ranges(t) ==
  /\ pc[t] = "ihx_ranges"
  /\ frame' = [frame EXCEPT ![t].ihx_addrs = ihx_ranges(addresses(frame[t].ihx))]
  /\ pc' = [pc EXCEPT ![t] = "ihx_sectors"]
  /\ UNCHANGED <<flash_type, constructed, callbacks, waiting_for_callback,
                 read_callback_data, result, ncalls, sent, answered, mem,
                 spurious, cbs, probe>>

\* line 145: the list the erase loop iterates
write_ihx_sectors(t) ==
  /\ pc[t] = "ihx_sectors"
  /\ LET su == sectors_used(flash_type, frame[t].ihx_addrs)
     IN IF su.raised # ""
        THEN /\ Finish(t, su.raised, <<>>)
             /\ frame' = frame
        ELSE /\ frame' = [frame EXCEPT ![t].sectors = su.val, ![t].si = 1]
             /\ pc' = [pc EXCEPT ![t] = "ihx_erase_loop"]
             /\ result' = result
  /\ UNCHANGED <<flash_type, constructed, callbacks, waiting_for_callback,
                 read_callback_data, ncalls, sent, answered, mem, spurious,
                 cbs, probe>>

\* the erase loop calling erase_sector with check_sector=False
write_ihx_erase_loop_unchecked(t) ==
  /\ pc[t] = "ihx_erase_loop"
  /\ IF frame[t].si <= Len(frame[t].sectors)
     THEN /\ frame' = [frame EXCEPT ![t].sector = frame[t].sectors[frame[t].si],
                                    ![t].check_sector = FALSE,
                                    ![t].caller = "write_ihx"]
          /\ pc' = [pc EXCEPT ![t] = "erase_check"]
     ELSE /\ frame' = [frame EXCEPT ![t].ri = 1]
          /\ pc' = [pc EXCEPT ![t] = "ihx_range_loop"]
  /\ UNCHANGED <<flash_type, constructed, callbacks, waiting_for_callback,
                 read_callback_data, result, ncalls, sent, answered, mem,
                 spurious, cbs, probe>>

\* lines 145-148: the next sector is erased (check_sector defaults to True),
\* or the loop ends and the write loop begins (line 153)
write_ihx_erase_loop(t) ==
  /\ pc[t] = "ihx_erase_loop"
  /\ IF frame[t].si <= Len(frame[t].sectors)
     THEN /\ frame' = [frame EXCEPT ![t].sector = frame[t].sectors[frame[t].si],
                                    ![t].check_sector = TRUE,
                                    ![t].caller = "write_ihx"]
          /\ pc' = [pc EXCEPT ![t] = "erase_check"]
     ELSE /\ frame' = [frame EXCEPT ![t].ri = 1]
          /\ pc' = [pc EXCEPT ![t] = "ihx_range_loop"]
  /\ UNCHANGED <<flash_type, constructed, callbacks, waiting_for_callback,
                 read_callback_data, result, ncalls, sent, answered, mem,
                 spurious, cbs, probe>>

\* lines 153-154, and line 162 once every range is done
write_ihx_range_loop(t) ==
  /\ pc[t] = "ihx_range_loop"
  /\ IF frame[t].ri <= Len(frame[t].ihx_addrs)
     THEN /\ frame' = [frame EXCEPT
                         ![t].strides = PyRangeStep(frame[t].ihx_addrs[frame[t].ri][1],
                                                    frame[t].ihx_addrs[frame[t].ri][2],
                                                    ADDRS_PER_OP),
                         ![t].ai = 1]
          /\ pc' = [pc EXCEPT ![t] = "ihx_addr_loop"]
          /\ result' = result
     ELSE /\ Finish(t, "ok", <<>>)
          /\ frame' = frame
  /\ UNCHANGED <<flash_type, constructed, callbacks, waiting_for_callback,
                 read_callback_data, ncalls, sent, answered, mem, spurious,
                 cbs, probe>>

\* the stride loop fetching every chunk at the start of the range
write_ihx_addr_loop_chunkAtStart(t) ==
  /\ pc[t] = "ihx_addr_loop"
  /\ IF frame[t].ai <= Len(frame[t].strides)
     THEN LET addr == frame[t].strides[frame[t].ai]
              binary == tobinstr(frame[t].ihx, frame[t].strides[1], ADDRS_PER_OP)
          IN /\ frame' = [frame EXCEPT ![t].addr = addr, ![t].binary = binary,
                                       ![t].address = addr, ![t].data = binary,
                                       ![t].caller = "write_ihx"]
             /\ pc' = [pc EXCEPT ![t] = "write_set"]
     ELSE /\ frame' = [frame EXCEPT ![t].ri = @ + 1]
          /\ pc' = [pc EXCEPT ![t] = "ihx_range_loop"]
  /\ UNCHANGED <<flash_type, constructed, callbacks, waiting_for_callback,
                 read_callback_data, result, ncalls, sent, answered, mem,
                 spurious, cbs, probe>>

\* lines 154-158: the next stride is fetched and write is called
write_ihx_addr_loop(t) ==
  /\ pc[t] = "ihx_addr_loop"
  /\ IF frame[t].ai <= Len(frame[t].strides)
     THEN LET addr == frame[t].strides[frame[t].ai]
              binary == tobinstr(frame[t].ihx, addr, ADDRS_PER_OP)
          IN /\ frame' = [frame EXCEPT ![t].addr = addr, ![t].binary = binary,
                                       ![t].address = addr, ![t].data = binary,
                                       ![t].caller = "write_ihx"]
             /\ pc' = [pc EXCEPT ![t] = "write_set"]
     ELSE /\ frame' = [frame EXCEPT ![t].ri = @ + 1]
          /\ pc' = [pc EXCEPT ![t] = "ihx_range_loop"]
  /\ UNCHANGED <<flash_type, constructed, callbacks, waiting_for_callback,
                 read_callback_data, result, ncalls, sent, answered, mem,
                 spurious, cbs, probe>>

\* the comparison left out
readback_matches_always(readback, binary) == TRUE

\* whether line 160 finds the read-back equal to map(ord, binary)

readback_matches(readback, binary) == readback = binary

\* lines 160-161
write_ihx_compare(t) ==
  /\ pc[t] = "ihx_compare"
  /\ IF ~readback_matches(frame[t].flash_readback, frame[t].binary)
     THEN /\ Finish(t, "data read from flash != data written to flash", <<>>)
          /\ frame' = frame
     ELSE /\ frame' = [frame EXCEPT ![t].ai = @ + 1]
          /\ pc' = [pc EXCEPT ![t] = "ihx_addr_loop"]
          /\ result' = result
  /\ UNCHANGED <<flash_type, constructed, callbacks, waiting_for_callback,
                 read_callback_data, ncalls, sent, answered, mem, spurious,
                 cbs, probe>>

-----------------------------------------------------------------------------
(* The callbacks, run by the link's thread                                  *)

\* _done_callback leaving the flag as it is
done_callback_keepsFlag(data) ==
  /\ waiting_for_callback' = waiting_for_callback
  /\ read_callback_data' = read_callback_data

\* Flash._done_callback
done_callback(data) ==
  /\ waiting_for_callback' = FALSE
  /\ read_callback_data' = read_callback_data

\* Flash._read_callback; a struct.error leaves the object as it was
read_callback(data) ==
  LET u == unpack_read(data)
  IN IF u.raised # ""
     THEN UNCHANGED <<waiting_for_callback, read_callback_data>>
     ELSE /\ read_callback_data' = u.val
          /\ waiting_for_callback' = FALSE

\* the link receives a message of msg_type and runs the callback registered
\* for it; req is the request it answers (0: none)
Deliver(msg_type, data, req) ==
  /\ IF <<msg_type, "_done_callback">> \in callbacks
     THEN /\ done_callback(data)
          /\ cbs' = [t \in Threads |-> cbs[t] \cup {[kind |-> "done", req |-> req]}]
     ELSE IF <<msg_type, "_read_callback">> \in callbacks
     THEN /\ read_callback(data)
          /\ cbs' = [t \in Threads |->
                       IF unpack_read(data).raised # "" THEN cbs[t]
                       ELSE cbs[t] \cup {[kind |-> "read", req |-> req]}]
     ELSE UNCHANGED <<waiting_for_callback, read_callback_data, cbs>>

-----------------------------------------------------------------------------
(* The device behind the link                                               *)

MemByte(a) == IF a \in DOMAIN mem THEN mem[a] ELSE 255

\* the device erases a sector: its bytes read 0xFF again
DevErase(buf) ==
  LET keep == {a \in DOMAIN mem : addr_sector_map(flash_type, a).val # buf[1]}
  IN [a \in keep |-> mem[a]]

\* the device stores the payload of a write request
DevWrite(buf) ==
  LET addr == UnLE32(SubSeq(buf, 1, 4))
      n == buf[5]
      new == addr..(addr + n - 1)
  IN [a \in (DOMAIN mem) \cup new |->
        IF a \in new THEN buf[6 + (a - addr)] ELSE mem[a]]

\* the device's read response: address, length, then the bytes
DevRead(buf) ==
  LET addr == UnLE32(SubSeq(buf, 1, 4))
      n == buf[5]
  IN LE32(addr) \o <<n>> \o [i \in 1..n |-> MemByte(addr + i - 1)]

\* the read response with its first payload byte changed
Corrupt(resp) == [resp EXCEPT ![6] = (@ + 1) % 256]

\* the device handles the oldest unanswered request and answers it
DeviceRespond ==
  /\ answered < Len(sent)
  /\ LET req == sent[answered + 1]
     IN IF req.type = flash_msg_erase
        THEN /\ mem' = DevErase(req.buf)
             /\ Deliver(flash_msg_done, <<>>, answered + 1)
        ELSE IF req.type = flash_msg_write
        THEN /\ mem' = DevWrite(req.buf)
             /\ Deliver(flash_msg_done, <<>>, answered + 1)
        ELSE /\ mem' = mem
             /\ Deliver(flash_msg_read, DevRead(req.buf), answered + 1)
  /\ answered' = answered + 1
  /\ UNCHANGED <<flash_type, constructed, callbacks, pc, frame, result, ncalls,
                 sent, spurious, probe>>

\* the device answers a read request with bytes that differ from its memory
DeviceRespondCorrupt ==
  /\ answered < Len(sent)
  /\ sent[answered + 1].type = flash_msg_read
  /\ sent[answered + 1].buf[5] > 0
  /\ Deliver(flash_msg_read, Corrupt(DevRead(sent[answered + 1].buf)), answered + 1)
  /\ answered' = answered + 1
  /\ UNCHANGED <<flash_type, constructed, callbacks, pc, frame, result, ncalls,
                 sent, mem, spurious, probe>>

MaxSpurious == 1

\* a DONE message nobody asked for
SpuriousDone ==
  /\ constructed = "yes"
  /\ spurious < MaxSpurious
  /\ Deliver(flash_msg_done, <<>>, 0)
  /\ spurious' = spurious + 1
  /\ UNCHANGED <<flash_type, constructed, callbacks, pc, frame, result, ncalls,
                 sent, answered, mem, probe>>

\* a READ message nobody asked for, well-formed or not
SpuriousRead ==
  /\ constructed = "yes"
  /\ spurious < MaxSpurious
  /\ \E data \in {<<0, 0, 0, 0, 1, 165>>, <<0, 0, 0, 0, 2, 165>>} :
       Deliver(flash_msg_read, data, 0)
  /\ spurious' = spurious + 1
  /\ UNCHANGED <<flash_type, constructed, callbacks, pc, frame, result, ncalls,
                 sent, answered, mem, probe>>

-----------------------------------------------------------------------------
(* Specifications                                                           *)

DirectStep(t, max) ==
  \/ call_erase_sector(t, max) \/ erase_check(t) \/ erase_set(t) \/ erase_send(t)
  \/ erase_wait(t)
  \/ call_write(t, max) \/ write_set(t) \/ write_send(t) \/ write_wait(t)
  \/ call_read(t, max) \/ read_set(t) \/ read_send(t) \/ read_wait(t) \/ read_ret(t)

IhxStep(t, max) ==
  \/ call_write_ihx(t, max) \/ write_ihx_ranges(t) \/ write_ihx_sectors(t)
  \/ write_ihx_erase_loop(t) \/ write_ihx_range_loop(t)
  \/ write_ihx_addr_loop(t) \/ write_ihx_compare(t)

\* one caller thread; the device may answer wrongly and the link may deliver
\* messages nobody asked for
Next ==
  \/ Flash_init
  \/ DirectStep("main", MaxCalls)
  \/ IhxStep("main", MaxCalls)
  \/ DeviceRespond
  \/ DeviceRespondCorrupt
  \/ SpuriousDone
  \/ SpuriousRead

Spec == Init /\ [][Next]_vars

\* one caller thread and a device that answers each request once, from memory
NextDevice ==
  \/ Flash_init
  \/ DirectStep("main", MaxDeviceCalls)
  \/ IhxStep("main", MaxDeviceCalls)
  \/ DeviceRespond

SpecDevice == Init /\ [][NextDevice]_vars

\* the steps of a call under way: the caller thread keeps running, its wait
\* loops keep polling
ThreadRuns(t) ==
  \/ erase_check(t) \/ erase_set(t) \/ erase_send(t) \/ erase_wait(t)
  \/ write_set(t) \/ write_send(t) \/ write_wait(t)
  \/ read_set(t) \/ read_send(t) \/ read_wait(t) \/ read_ret(t)
  \/ write_ihx_ranges(t) \/ write_ihx_sectors(t) \/ write_ihx_erase_loop(t)
  \/ write_ihx_range_loop(t) \/ write_ihx_addr_loop(t) \/ write_ihx_compare(t)

\* one caller thread that is scheduled again and again, and a device that
\* answers every request in the end
NextFair ==
  \/ Flash_init
  \/ DirectStep("main", MaxCalls)
  \/ IhxStep("main", MaxCalls)
  \/ DeviceRespond

SpecFair ==
  /\ Init
  /\ [][NextFair]_vars
  /\ WF_vars(ThreadRuns("main"))
  /\ WF_vars(DeviceRespond)

\* two threads call into the same Flash object
NextConc ==
  \/ Flash_init
  \/ DirectStep("main", MaxCalls)
  \/ DirectStep("other", MaxCalls)
  \/ DeviceRespond

SpecConc == Init /\ [][NextConc]_vars

-----------------------------------------------------------------------------
(* The pure functions applied to inputs of their own                        *)

\* addresses at, just below and just above every sector boundary
StmSample ==
  LET bounds == {\H08000000, \H08004000, \H08008000, \H0800C000, \H08010000,
                 \H08020000, \H08040000, \H08060000, \H08080000, \H080A0000,
                 \H080C0000, \H080E0000, \H08100000}
  IN bounds \cup {b - 1 : b \in bounds} \cup {b + 1 : b \in bounds}
       \cup {0, \H08018000, \H08030000}

M25Sample ==
  LET bounds == {k * 65536 : k \in 0..16}
  IN bounds \cup {b - 1 : b \in bounds} \cup {b + 1 : b \in bounds}

AddrSample(ft) == IF ft = "STM" THEN StmSample ELSE M25Sample

\* endpoints of the ranges given to sectors_used
EndpointSample(ft) ==
  IF ft = "STM"
  THEN {\H08000000, \H08004000, \H0800FFFF, \H08010000, \H080E0000, \H08100000}
  ELSE {0, \H00FFFF, \H010000, \H02FFFF, \H0F0000, \H100000}

MaxRanges == 2

RangeLists(ft) ==
  UNION {[1..n -> EndpointSample(ft) \X EndpointSample(ft)] : n \in 0..MaxRanges}

\* populated addresses of the images given to ihx_ranges
IhxSpan == 3

AddressSets == SUBSET ((10..(10 + IhxSpan)) \cup {20, 21, 50})

ProbeInputs ==
  [fn : {"addr_sector_map"}, ft : {"STM"}, args : StmSample \X StmSample,
   out : {<<>>}, done : {FALSE}]
  \cup
  [fn : {"addr_sector_map"}, ft : {"M25"}, args : M25Sample \X M25Sample,
   out : {<<>>}, done : {FALSE}]
  \cup
  [fn : {"sectors_used"}, ft : {"STM"}, args : RangeLists("STM"),
   out : {<<>>}, done : {FALSE}]
  \cup
  [fn : {"sectors_used"}, ft : {"M25"}, args : RangeLists("M25"),
   out : {<<>>}, done : {FALSE}]
  \cup
  [fn : {"ihx_ranges"}, ft : {"STM"}, args : {Sorted(S) : S \in AddressSets},
   out : {<<>>}, done : {FALSE}]

InitFn ==
  /\ flash_type = "STM"
  /\ InitFlash
  /\ probe \in ProbeInputs

apply_addr_sector_map ==
  /\ probe.fn = "addr_sector_map" /\ ~probe.done
  /\ probe' = [probe EXCEPT
                 !.out = <<addr_sector_map(probe.ft, probe.args[1]),
                           addr_sector_map(probe.ft, probe.args[2])>>,
                 !.done = TRUE]
  /\ UNCHANGED flashVars

apply_sectors_used ==
  /\ probe.fn = "sectors_used" /\ ~probe.done
  /\ probe' = [probe EXCEPT !.out = sectors_used(probe.ft, probe.args),
                            !.done = TRUE]
  /\ UNCHANGED flashVars

apply_ihx_ranges ==
  /\ probe.fn = "ihx_ranges" /\ ~probe.done
  /\ probe' = [probe EXCEPT !.out = ihx_ranges(probe.args), !.done = TRUE]
  /\ UNCHANGED flashVars

NextFn ==
  \/ apply_addr_sector_map
  \/ apply_sectors_used
  \/ apply_ihx_ranges

SpecFn == InitFn /\ [][NextFn]_vars

-----------------------------------------------------------------------------
(* What the properties below speak of                                       *)

\* the restricted sectors as the specification lists them
RestrictedByPolicy(ft, sector) ==
  \/ ft = "STM" /\ sector \in 0..3
  \/ ft = "M25" /\ sector = 15

\* the valid address window of a device family
InWindow(ft, a) ==
  IF ft = "STM" THEN \H08000000 <= a /\ a < \H08100000
  ELSE 0 <= a /\ a < \H100000

\* the requests the running (or last) call of thread t has sent
Requests(t) ==
  {i \in 1..Len(sent) : sent[i].by = t /\ sent[i].call = frame[t].call}

IsErase(i) == sent[i].type = flash_msg_erase
IsWrite(i) == sent[i].type = flash_msg_write
IsRead(i) == sent[i].type = flash_msg_read

RestrictedError == "Tried to erase restricted sector"
MismatchError == "data read from flash != data written to flash"

\* the image of t's write_ihx call populates an address of a restricted sector
TouchesRestricted(t) ==
  \E a \in Populated(frame[t].ihx) :
    /\ InWindow(flash_type, a)
    /\ RestrictedByPolicy(flash_type, addr_sector_map(flash_type, a).val)

ImageInWindow(t) ==
  \A a \in Populated(frame[t].ihx) : InWindow(flash_type, a)

-----------------------------------------------------------------------------
(* C1 *)

\* C1: erase_sector on a restricted sector with check_sector true raises the
\* restricted-sector error without sending anything and without touching the
\* awaiting flag or the stored read result; otherwise (check disabled, or the
\* sector unrestricted) the call goes on and the request it sends is the erase
\* request for that very sector.  No call that checks ever has an erase
\* request for a restricted sector in the log.
C1_RestrictedEraseRefused ==
  /\ [][\A t \in Threads :
          (pc[t] = "erase_check" /\ pc'[t] # "erase_check") =>
            IF frame[t].check_sector
               /\ RestrictedByPolicy(flash_type, frame[t].sector)
            THEN /\ pc'[t] = "idle"
                 /\ result'[t].status = RestrictedError
                 /\ sent' = sent
                 /\ waiting_for_callback' = waiting_for_callback
                 /\ read_callback_data' = read_callback_data
            ELSE pc'[t] = "erase_set"]_vars
  /\ [][\A t \in Threads :
          (pc[t] = "erase_send" /\ pc'[t] # "erase_send") =>
            /\ Len(sent') = Len(sent) + 1
            /\ sent'[Len(sent')].type = flash_msg_erase
            /\ sent'[Len(sent')].buf = <<frame[t].sector>>]_vars
  /\ [](\A t \in Threads : \A i \in Requests(t) :
          (IsErase(i) /\ frame[t].check_sector) =>
            ~RestrictedByPolicy(flash_type, sent[i].buf[1]))

\* a checked erase of a restricted sector has been refused after an unchecked
\* erase of a restricted sector was sent and answered
C1_Witness ==
  /\ pc["main"] = "idle"
  /\ frame["main"].op = "erase_sector"
  /\ frame["main"].check_sector
  /\ RestrictedByPolicy(flash_type, frame["main"].sector)
  /\ result["main"].status = RestrictedError
  /\ frame["main"].prev.op = "erase_sector"
  /\ frame["main"].prev.status = "ok"
  /\ \E i \in 1..Len(sent) :
       /\ sent[i].type = flash_msg_erase
       /\ RestrictedByPolicy(flash_type, sent[i].buf[1])

-----------------------------------------------------------------------------
(* C2 *)

\* C2 as stated: write_ihx on an image that touches a restricted sector sends
\* no request at all and can only end with the restricted-sector error.
C2_NoRequestAtAll ==
  \A t \in Threads :
    (frame[t].op = "write_ihx" /\ TouchesRestricted(t) /\ ImageInWindow(t)) =>
      /\ Requests(t) = {}
      /\ (pc[t] = "idle" => result[t].status = RestrictedError)

\* C2 amended: write_ihx on an image that touches a restricted sector never
\* sends a write or read request nor an erase request for a restricted
\* sector, and never succeeds; with the image inside the address window it
\* can only end with the restricted-sector error.  On STM nothing is sent;
\* on M25 only erase requests of unrestricted sectors are.
C2_NoRestrictedEraseNoWrite ==
  \A t \in Threads :
    (frame[t].op = "write_ihx" /\ TouchesRestricted(t)) =>
      /\ \A i \in Requests(t) :
           /\ IsErase(i)
           /\ ~RestrictedByPolicy(flash_type, sent[i].buf[1])
      /\ (flash_type = "STM" => Requests(t) = {})
      /\ (pc[t] = "idle" => result[t].status # "ok")
      /\ ((pc[t] = "idle" /\ ImageInWindow(t)) =>
            result[t].status = RestrictedError)

\* an M25 image over sectors 14 and 15: sector 14's erase was sent, then the
\* call failed on sector 15
C2_Witness ==
  /\ frame["main"].op = "write_ihx"
  /\ TouchesRestricted("main")
  /\ pc["main"] = "idle"
  /\ result["main"].status = RestrictedError
  /\ \E i \in Requests("main") : IsErase(i) /\ sent[i].buf = <<14>>

-----------------------------------------------------------------------------
(* C3 *)

\* C3: when write_ihx compares a read-back that differs from the chunk it
\* wrote, the call ends there with the mismatch error and sends nothing; and
\* in a call that ended so, the last request is the read of the mismatching
\* chunk and that chunk was written once.
C3_MismatchAborts ==
  /\ [][\A t \in Threads :
          (/\ pc[t] = "ihx_compare"
           /\ pc'[t] # "ihx_compare"
           /\ frame[t].flash_readback # frame[t].binary) =>
            /\ pc'[t] = "idle"
            /\ result'[t].status = MismatchError
            /\ sent' = sent]_vars
  /\ [](\A t \in Threads :
          (pc[t] = "idle" /\ frame[t].op = "write_ihx"
           /\ result[t].status = MismatchError) =>
            LET last == CHOOSE i \in Requests(t) : \A j \in Requests(t) : j <= i
            IN /\ Requests(t) # {}
               /\ IsRead(last)
               /\ sent[last].buf = LE32(frame[t].addr) \o <<ADDRS_PER_OP>>
               /\ Cardinality({i \in Requests(t) :
                                 /\ IsWrite(i)
                                 /\ SubSeq(sent[i].buf, 1, 4) = LE32(frame[t].addr)}) = 1)

\* a call has aborted on a mismatch with strides or ranges still to program
C3_Witness ==
  /\ pc["main"] = "idle"
  /\ frame["main"].op = "write_ihx"
  /\ result["main"].status = MismatchError
  /\ frame["main"].flash_readback # frame["main"].binary
  /\ \/ frame["main"].ai < Len(frame["main"].strides)
     \/ frame["main"].ri < Len(frame["main"].ihx_addrs)

-----------------------------------------------------------------------------
(* C4 *)

\* C4 as stated: a call gets past its wait only after the callback of the
\* matching kind has run for its own request: read after a read-data
\* callback, erase_sector and write after a done callback.
C4_ReturnsOnlyAfterMatchingCallback ==
  \A t \in Threads :
    /\ pc[t] = "read_ret" =>
         [kind |-> "read", req |-> frame[t].req] \in cbs[t]
    /\ (pc[t] = "idle" /\ result[t].status = "ok"
        /\ frame[t].op \in {"erase_sector", "write"}) =>
         [kind |-> "done", req |-> frame[t].req] \in cbs[t]

-----------------------------------------------------------------------------
(* C5 *)

\* C5 as stated: a call made while the awaiting flag is set sends no request
\* and ends with an error: OperationInFlight (or, for a checked erase of a
\* restricted sector, the restricted-sector error, whichever check is first).
C5_FailsFastWhenBusy ==
  \A t \in Threads :
    frame[t].busy =>
      /\ Requests(t) = {}
      /\ (pc[t] = "idle" =>
            result[t].status \in {"OperationInFlight", RestrictedError})

-----------------------------------------------------------------------------
(* C6 *)

\* C6: with a device that stores what is written and answers reads from its
\* memory, a read(A, len(B)) that follows a write(A, B) returns B.
C6_RoundTrip ==
  \A t \in Threads :
    (/\ pc[t] = "idle"
     /\ frame[t].op = "read"
     /\ result[t].status = "ok"
     /\ frame[t].prev.op = "write"
     /\ frame[t].prev.status = "ok"
     /\ frame[t].prev.address = frame[t].address
     /\ Len(frame[t].prev.data) = frame[t].length) =>
      result[t].val = frame[t].prev.data

\* a write of 255 bytes has been read back
C6_Witness ==
  /\ pc["main"] = "idle"
  /\ frame["main"].op = "read"
  /\ result["main"].status = "ok"
  /\ frame["main"].prev.op = "write"
  /\ frame["main"].prev.status = "ok"
  /\ frame["main"].prev.address = frame["main"].address
  /\ Len(frame["main"].prev.data) = frame["main"].length
  /\ frame["main"].length = 255
  /\ Len(result["main"].val) = 255

-----------------------------------------------------------------------------
(* C7 *)

\* the addresses a list of ranges covers, each range read as [start, end)
Covered(ranges) ==
  UNION {{a \in ranges[j][1]..(ranges[j][2] - 1) : TRUE} : j \in 1..Len(ranges)}

\* C7 as stated: ihx_ranges returns ranges (start, end), end exclusive, that
\* are ascending and apart (so maximal: a populated a and a+1 share a range)
\* and whose union [start, end) is the set of populated addresses; the
\* addresses 10,11,12,20,21,50 give (10,13),(20,22),(50,51).
C7_RangesEndExclusive ==
  (probe.fn = "ihx_ranges" /\ probe.done) =>
    LET pop == {probe.args[i] : i \in 1..Len(probe.args)}
        out == probe.out
    IN /\ \A j \in 1..Len(out) : out[j][1] < out[j][2]
       /\ \A j \in 1..(Len(out) - 1) : out[j][2] < out[j + 1][1]
       /\ Covered(out) = pop
       /\ (probe.args = <<10, 11, 12, 20, 21, 50>> =>
             out = << <<10, 13>>, <<20, 22>>, <<50, 51>> >>)

-----------------------------------------------------------------------------
(* C8 *)

\* C8 as stated: for an address outside the family's window the sector map
\* raises instead of returning a value.
C8_OutOfWindowRaises ==
  (probe.fn = "addr_sector_map" /\ probe.done) =>
    \A k \in 1..2 :
      ~InWindow(probe.ft, probe.args[k]) => probe.out[k].raised # ""

-----------------------------------------------------------------------------
(* C9 *)

\* the sectors from that of s to that of e, both included
SectorSpan(ft, s, e) ==
  {k \in 0..15 : /\ addr_sector_map(ft, s).val <= k
                 /\ k <= addr_sector_map(ft, e).val}

\* C9: when sectors_used returns, its list is strictly ascending and holds
\* exactly the sectors of the spans of all ranges, however the ranges
\* overlap or are ordered.
C9_SectorsUsedSortedUnion ==
  (probe.fn = "sectors_used" /\ probe.done /\ probe.out.raised = "") =>
    LET out == probe.out.val
    IN /\ \A j \in 1..(Len(out) - 1) : out[j] < out[j + 1]
       /\ {out[j] : j \in 1..Len(out)} =
            UNION {SectorSpan(probe.ft, probe.args[i][1], probe.args[i][2]) :
                     i \in 1..Len(probe.args)}

\* two ranges given out of order that share sectors, several sectors returned
C9_Witness ==
  /\ probe.fn = "sectors_used" /\ probe.done /\ probe.out.raised = ""
  /\ Len(probe.args) = 2
  /\ probe.args[2][1] < probe.args[1][1]
  /\ SectorSpan(probe.ft, probe.args[1][1], probe.args[1][2])
       \cap SectorSpan(probe.ft, probe.args[2][1], probe.args[2][2]) # {}
  /\ Len(probe.out.val) >= 3

-----------------------------------------------------------------------------
(* C10 *)

\* the STM sector sizes: sectors 0-3 of 16KiB, 4 of 64KiB, 5-11 of 128KiB
StmSectorSize(k) == IF k < 4 THEN 16384 ELSE IF k = 4 THEN 65536 ELSE 131072

\* where sector k starts when the sectors follow one another from 0x08000000
RECURSIVE StmSectorBase(_)
StmSectorBase(k) ==
  IF k = 0 THEN \H08000000 ELSE StmSectorBase(k - 1) + StmSectorSize(k - 1)

\* C10: over the STM window the sector map is monotonic, and it is the
\* partition into the 12 consecutive sectors of those sizes, which end at
\* 0x08100000.
C10_StmPartition ==
  /\ StmSectorBase(12) = \H08100000
  /\ (probe.fn = "addr_sector_map" /\ probe.ft = "STM" /\ probe.done) =>
       /\ \A k \in 1..2 :
            InWindow("STM", probe.args[k]) =>
              /\ probe.out[k].raised = ""
              /\ probe.out[k].val \in 0..11
              /\ StmSectorBase(probe.out[k].val) <= probe.args[k]
              /\ probe.args[k] < StmSectorBase(probe.out[k].val + 1)
       /\ (/\ InWindow("STM", probe.args[1])
           /\ InWindow("STM", probe.args[2])
           /\ probe.args[1] <= probe.args[2]) =>
            probe.out[1].val <= probe.out[2].val

\* the last address of sector 7 and the first of sector 8 have been mapped
C10_Witness ==
  /\ probe.fn = "addr_sector_map" /\ probe.ft = "STM" /\ probe.done
  /\ probe.args = <<\H0807FFFF, \H08080000>>
  /\ probe.out[1].val = 7
  /\ probe.out[2].val = 8

-----------------------------------------------------------------------------
(* C11 *)

\* C11: constructing a Flash for a family other than STM and M25 fails, and
\* it fails without any interaction with the link: no callback is registered
\* and no message is sent, then or afterwards (no call can be made on the
\* object that was never built).  The construction fails for those families
\* only.
C11_UnsupportedFamilyFails ==
  /\ (flash_type \notin {"STM", "M25"} /\ constructed # "no") =>
        constructed = "failed"
  /\ constructed = "failed" =>
        /\ flash_type \notin {"STM", "M25"}
        /\ callbacks = {}
        /\ sent = <<>>
        /\ \A t \in Threads : pc[t] = "idle" /\ ncalls[t] = 0
        /\ waiting_for_callback = FALSE
        /\ read_callback_data = <<>>
  /\ constructed = "yes" => flash_type \in {"STM", "M25"} /\ callbacks # {}

\* the constructor has run for the family LPC and has failed
C11_Witness ==
  /\ flash_type = "LPC"
  /\ constructed = "failed"
  /\ callbacks = {}

-----------------------------------------------------------------------------
(* C12 *)

\* the erase requests, and the write and read requests, of t's running call
EraseRequests(t) == {i \in Requests(t) : IsErase(i)}
ProgramRequests(t) == {i \in Requests(t) : IsWrite(i) \/ IsRead(i)}

\* C12: write_ihx runs its two phases in order.  Every erase request of the
\* call comes before every write and read request of the call, so none is
\* sent after the first write; and at every state in which a write or read
\* request of the call has been sent, the erase phase is over: one erase
\* request for each sector of the list has been sent and the device's done
\* response to each of them has been delivered.
C12_ErasePhaseBeforeWritePhase ==
  \A t \in Threads :
    frame[t].op = "write_ihx" =>
      /\ \A i \in EraseRequests(t) : \A j \in ProgramRequests(t) : i < j
      /\ ProgramRequests(t) # {} =>
           /\ {sent[i].buf[1] : i \in EraseRequests(t)} =
                {frame[t].sectors[k] : k \in 1..Len(frame[t].sectors)}
           /\ Cardinality(EraseRequests(t)) = Len(frame[t].sectors)
           /\ \A i \in EraseRequests(t) : i <= answered
           /\ frame[t].si = Len(frame[t].sectors) + 1
      /\ (pc[t] \in {"erase_check", "erase_set", "erase_send", "erase_wait",
                     "ihx_erase_loop"}) => ProgramRequests(t) = {}

\* a call over two sectors is in its second phase: both erase requests and
\* then a write and its read have been sent
C12_Witness ==
  /\ frame["main"].op = "write_ihx"
  /\ Cardinality(EraseRequests("main")) = 2
  /\ \E j \in ProgramRequests("main") : IsWrite(j)
  /\ \E j \in ProgramRequests("main") : IsRead(j)
  /\ pc["main"] = "ihx_compare"

-----------------------------------------------------------------------------
(* C13 *)

\* the sectors an image touches: for every run of populated addresses, the
\* sectors from that of its first address to that of its last
ImageSectorSet(ihx) ==
  UNION {SectorSpan(flash_type, ihx[r][1], ihx[r][1] + ihx[r][2] - 1) :
           r \in 1..Len(ihx)}

\* every populated address of an image lies in the address window
RunsInWindow(ihx) ==
  \A r \in 1..Len(ihx) :
    /\ InWindow(flash_type, ihx[r][1])
    /\ InWindow(flash_type, ihx[r][1] + ihx[r][2] - 1)

\* the restricted sectors an image touches
RestrictedTouched(ihx) ==
  {k \in ImageSectorSet(ihx) : RestrictedByPolicy(flash_type, k)}

\* the erase phase of t's write_ihx call is over
ErasePhaseOver(t) ==
  \/ pc[t] \in {"ihx_range_loop", "ihx_addr_loop", "write_set", "write_send",
                "write_wait", "read_set", "read_send", "read_wait",
                "read_ret", "ihx_compare"}
  \/ pc[t] = "idle" /\ result[t].status \in {"ok", MismatchError}

\* C13: for an image inside the address window that touches no restricted
\* sector, the erase requests of a write_ihx call are in strictly ascending
\* sector order (so no sector is erased twice), every sector erased is one
\* the image touches, and once the erase phase is over every sector the
\* image touches has been erased.
C13_EraseAscendingOncePerSector ==
  \A t \in Threads :
    (/\ frame[t].op = "write_ihx"
     /\ RunsInWindow(frame[t].ihx)
     /\ RestrictedTouched(frame[t].ihx) = {}) =>
      /\ \A i, j \in EraseRequests(t) :
           i < j => sent[i].buf[1] < sent[j].buf[1]
      /\ \A i \in EraseRequests(t) :
           /\ Len(sent[i].buf) = 1
           /\ sent[i].buf[1] \in ImageSectorSet(frame[t].ihx)
      /\ ErasePhaseOver(t) =>
           {sent[i].buf[1] : i \in EraseRequests(t)} =
             ImageSectorSet(frame[t].ihx)

\* an image of two ranges in one sector: the sector was erased once and the
\* call is past its erase phase
C13_Witness ==
  /\ frame["main"].op = "write_ihx"
  /\ Len(frame["main"].ihx_addrs) = 2
  /\ ErasePhaseOver("main")
  /\ Cardinality(ImageSectorSet(frame["main"].ihx)) = 1
  /\ Cardinality(EraseRequests("main")) = 1

-----------------------------------------------------------------------------
(* C14 *)

\* the lowest of the restricted sectors an image touches
FirstRestricted(ihx) ==
  CHOOSE k \in RestrictedTouched(ihx) : \A m \in RestrictedTouched(ihx) : k <= m

\* C14: when the sectors an image (inside the address window) touches include
\* a restricted one, write_ihx stops at the lowest restricted sector: every
\* erase request of the call is for a touched sector below it, in ascending
\* order, so none is for a restricted sector or for a sector after it; no
\* write or read request is sent; and the call can only end with the
\* restricted-sector error, at which point exactly the touched sectors below
\* the lowest restricted one have had their erase request sent.
C14_AbortsAtFirstRestricted ==
  \A t \in Threads :
    (/\ frame[t].op = "write_ihx"
     /\ RunsInWindow(frame[t].ihx)
     /\ RestrictedTouched(frame[t].ihx) # {}) =>
      LET first == FirstRestricted(frame[t].ihx)
          before == {k \in ImageSectorSet(frame[t].ihx) : k < first}
          erased == {sent[i].buf[1] : i \in EraseRequests(t)}
      IN /\ erased \subseteq before
         /\ \A k \in erased : ~RestrictedByPolicy(flash_type, k)
         /\ \A i, j \in EraseRequests(t) :
              i < j => sent[i].buf[1] < sent[j].buf[1]
         /\ ProgramRequests(t) = {}
         /\ pc[t] = "idle" =>
              /\ result[t].status = RestrictedError
              /\ erased = before
         /\ pc[t] = "erase_check" =>
              erased = {k \in before : k < frame[t].sector}

\* partial erasure: a call has ended with the restricted-sector error after
\* the erase request of an unrestricted sector below the restricted one
C14_Witness ==
  /\ pc["main"] = "idle"
  /\ frame["main"].op = "write_ihx"
  /\ RestrictedTouched(frame["main"].ihx) # {}
  /\ result["main"].status = RestrictedError
  /\ Cardinality(EraseRequests("main")) = 1
  /\ \A i \in EraseRequests("main") :
       sent[i].buf[1] < FirstRestricted(frame["main"].ihx)

-----------------------------------------------------------------------------
(* C15 *)

\* the addresses start, start+128, ... below end, ascending, for the ranges
\* from the i-th on
RECURSIVE ExpectedStrides(_, _)
ExpectedStrides(ranges, i) ==
  IF i > Len(ranges) THEN <<>>
  ELSE Sorted({a \in ranges[i][1]..(ranges[i][2] - 1) :
                 (a - ranges[i][1]) % ADDRS_PER_OP = 0})
       \o ExpectedStrides(ranges, i + 1)

\* the k-th request, in the order sent, of a set P of indices of the log
Nth(P, k) == CHOOSE i \in P : Cardinality({j \in P : j <= i}) = k

\* C15: the write and read requests of a write_ihx call come in pairs: the
\* odd ones are writes, the even ones reads; the k-th write is at the k-th
\* address of the strides start, start+128, ... < end of the ranges in
\* order ((start, end) as ihx_ranges gave them) and carries the 128 bytes the
\* image yields there; the read that follows asks for 128 bytes at the same
\* address; every request but the latest has been answered, so a stride's
\* write is sent only after the read-back of the one before was received;
\* the comparison is left towards the next stride only with the read-back
\* received and equal to the chunk; and a call that succeeded has sent the
\* pairs of all strides.
C15_WriteReadPairsPerStride ==
  /\ [](\A t \in Threads :
          frame[t].op = "write_ihx" =>
            LET P == ProgramRequests(t)
                n == Cardinality(P)
                E == ExpectedStrides(frame[t].ihx_addrs, 1)
            IN /\ (n + 1) \div 2 <= Len(E)
               /\ \A k \in 1..n :
                    LET i == Nth(P, k)
                        addr == E[(k + 1) \div 2]
                    IN /\ k % 2 = 1 =>
                            /\ IsWrite(i)
                            /\ sent[i].buf = LE32(addr) \o <<ADDRS_PER_OP>>
                                 \o tobinstr(frame[t].ihx, addr, ADDRS_PER_OP)
                            /\ Len(sent[i].buf) = 5 + ADDRS_PER_OP
                       /\ k % 2 = 0 =>
                            /\ IsRead(i)
                            /\ i = Nth(P, k - 1) + 1
                            /\ sent[i].buf = LE32(addr) \o <<ADDRS_PER_OP>>
                       /\ k < n => i <= answered
               /\ (pc[t] = "idle" /\ result[t].status = "ok") => n = 2 * Len(E))
  /\ [][\A t \in Threads :
          (/\ pc[t] = "ihx_compare"
           /\ pc'[t] \notin {"ihx_compare", "idle"}) =>
            /\ IsRead(frame[t].req)
            /\ frame[t].req <= answered
            /\ frame[t].flash_readback =
                 tobinstr(frame[t].ihx, frame[t].addr, ADDRS_PER_OP)
            /\ sent' = sent]_vars

\* a call over two strides has succeeded: write, read, write, read
C15_Witness ==
  /\ pc["main"] = "idle"
  /\ frame["main"].op = "write_ihx"
  /\ result["main"].status = "ok"
  /\ Cardinality(ProgramRequests("main")) = 4
  /\ Cardinality({i \in ProgramRequests("main") : IsWrite(i)}) = 2

-----------------------------------------------------------------------------
(* C16 *)

\* the requests sent and not yet answered
Outstanding == (answered + 1)..Len(sent)

\* the caller has set the flag and is about to send (between lines 112 and
\* 113, 119 and 120, 126 and 127)
AboutToSend(t) == pc[t] \in {"erase_send", "write_send", "read_send"}

\* C16 as stated: with one caller and a device that answers each request
\* once, at most one request is outstanding, a request is sent only when none
\* is outstanding, and the awaiting flag is true exactly while a request is
\* outstanding.
C16_FlagExactlyWhileOutstanding ==
  /\ Cardinality(Outstanding) <= 1
  /\ AboutToSend("main") => Outstanding = {}
  /\ waiting_for_callback <=> Outstanding # {}

\* C16 amended: with one caller and a device that answers each request once,
\* at most one request is outstanding, and it is the one the caller waits
\* for; a request is sent only when none is outstanding; the awaiting flag is
\* true whenever a request is outstanding, and besides that only while the
\* caller, having set the flag, is about to send.
C16_OneOutstandingFlagSetBeforeSend ==
  /\ Cardinality(Outstanding) <= 1
  /\ AboutToSend("main") => Outstanding = {}
  /\ Outstanding # {} =>
       /\ waiting_for_callback
       /\ pc["main"] \in {"erase_wait", "write_wait", "read_wait"}
       /\ Outstanding = {frame["main"].req}
  /\ waiting_for_callback => (Outstanding # {} \/ AboutToSend("main"))
  /\ (pc["main"] = "idle" /\ constructed = "yes") => ~waiting_for_callback

\* a later request of a call is outstanding, the ones before it answered
C16_Witness ==
  /\ pc["main"] = "read_wait"
  /\ waiting_for_callback
  /\ Outstanding = {Len(sent)}
  /\ answered >= 2

-----------------------------------------------------------------------------
(* C17 *)

\* the payloads a read-data response to request i of the log can carry: the
\* device's bytes at the requested addresses, or those bytes corrupted
ResponsePayloads(i) ==
  {unpack_read(DevRead(sent[i].buf)).val,
   unpack_read(Corrupt(DevRead(sent[i].buf))).val}

\* C17 as stated: what read has returned, to its caller or to write_ihx, is
\* the payload of the read-data response delivered for that very request,
\* whatever callbacks were delivered while it waited.
C17_ReadReturnsOwnPayload ==
  \A t \in Threads :
    /\ (pc[t] = "idle" /\ frame[t].op = "read" /\ result[t].status = "ok") =>
         /\ IsRead(frame[t].req)
         /\ result[t].val \in ResponsePayloads(frame[t].req)
    /\ pc[t] = "ihx_compare" =>
         /\ IsRead(frame[t].req)
         /\ frame[t].flash_readback \in ResponsePayloads(frame[t].req)

-----------------------------------------------------------------------------
(* C18 *)

\* the address a write or read request of the log is for
RequestAddress(i) == UnLE32(SubSeq(sent[i].buf, 1, 4))

\* C18 as stated: when write_ihx has succeeded, every populated address of
\* the image lies in the 128 addresses from addr on of a write request of
\* the call that was sent and answered and whose read-back was received.
C18_EveryPopulatedAddressWritten ==
  \A t \in Threads :
    (pc[t] = "idle" /\ frame[t].op = "write_ihx" /\ result[t].status = "ok") =>
      \A a \in Populated(frame[t].ihx) :
        \E i \in ProgramRequests(t) :
          /\ IsWrite(i)
          /\ RequestAddress(i) <= a
          /\ a < RequestAddress(i) + ADDRS_PER_OP
          /\ i + 1 \in ProgramRequests(t)
          /\ IsRead(i + 1)
          /\ i + 1 <= answered

-----------------------------------------------------------------------------
(* C19 *)

\* the sectors whose erase request t's running call has sent
ErasedSectors(t) == {sent[i].buf[1] : i \in EraseRequests(t)}

\* C19 as stated: every address of the 128 a write request of write_ihx
\* covers lies in a sector erased in the erase phase of the same call; so no
\* write covers an address of a restricted sector or of a sector past the
\* last erased one.
C19_WritesStayInErasedSectors ==
  \A t \in Threads :
    frame[t].op = "write_ihx" =>
      \A i \in ProgramRequests(t) :
        IsWrite(i) =>
          \A a \in RequestAddress(i)..(RequestAddress(i) + sent[i].buf[5] - 1) :
            /\ addr_sector_map(flash_type, a).raised = ""
            /\ addr_sector_map(flash_type, a).val \in ErasedSectors(t)
            /\ ~RestrictedByPolicy(flash_type, addr_sector_map(flash_type, a).val)

-----------------------------------------------------------------------------
(* C20 *)

\* t is in one of the wait loops
Waiting(t) == pc[t] \in {"erase_wait", "write_wait", "read_wait"}

\* C20: no wake-up is lost and write_ihx terminates.  Whenever the response
\* to the request a call waits for has been delivered, however early after
\* the send, the flag is clear, so the wait loop ends; every wait is left;
\* every call returns; and a write_ihx of an image inside the address window
\* that touches no restricted sector ends with success, given that the
\* caller thread keeps running and the device answers every request.
C20_NoLostWakeupAndTermination ==
  /\ [](\A t \in {"main"} :
          (Waiting(t) /\ frame[t].req <= answered) => ~waiting_for_callback)
  /\ \A t \in {"main"} :
       /\ Waiting(t) ~> ~Waiting(t)
       /\ (pc[t] # "idle") ~> (pc[t] = "idle")
       /\ (/\ pc[t] = "ihx_ranges"
           /\ RunsInWindow(frame[t].ihx)
           /\ RestrictedTouched(frame[t].ihx) = {})
            ~> (/\ pc[t] = "idle"
                /\ frame[t].op = "write_ihx"
                /\ result[t].status = "ok")

\* inside a write_ihx call that has erased and written before, the response
\* to the read has been delivered while the caller is in its wait loop: the
\* flag is clear and the loop is about to end
C20_Witness ==
  /\ pc["main"] = "read_wait"
  /\ frame["main"].op = "write_ihx"
  /\ frame["main"].req = Len(sent)
  /\ answered = Len(sent)
  /\ ~waiting_for_callback
  /\ RunsInWindow(frame["main"].ihx)
  /\ RestrictedTouched(frame["main"].ihx) = {}

=============================================================================
